---------------------------- MODULE Spec2Model ----------------------------
(***************************************************************************)
(* A model of searchduplicates.py: the directory walk (files_by_size), the  *)
(* main loop over size buckets (open, parallel_compare, close, sort, emit)  *)
(* and the remediation script it prints, over a small file system.          *)
(*                                                                          *)
(* A path is the sequence of its segments below "/": <<"r","s","c.txt">>    *)
(* is /r/s/c.txt.  File contents are sequences of bytes.                    *)
(***************************************************************************)
EXTENDS Integers, Sequences, FiniteSets, TLC

VARIABLES
    fs,                  \* the file system: [dirs, files, links, mode]
    args,                \* the parsed command line (argparse namespace)
    files_by_size_dict,  \* the integer keys of the size index: size -> set of paths
    visited,             \* files_by_size_dict[None]: the directories stepped into
    noneKey,             \* whether the key None exists in files_by_size_dict
    stack,               \* the active calls of files_by_size: <<[path, todo], ...>>
    rootsLeft,           \* the args.paths still to be scanned
    pc,                  \* where the script is
    keys,                \* the sorted bucket keys the main loop has yet to visit
    file_objects,        \* the main loop's file_objects: [bound, objs]
    handles,             \* the file handles that are open
    groups,              \* the main loop's groups
    exc,                 \* the exception in flight inside the try statement
    output,              \* what was printed: one record per emitted group
    warned,              \* the recursion-depth warning was logged
    error,               \* the exception that ended the run, "" if none
    run,                 \* 1: the first run, 2: the run after the script was executed
    call,                \* the arguments of a function called on its own
    ret                  \* and what it returned

vars == <<fs, args, files_by_size_dict, visited, noneKey, stack, rootsLeft, pc,
          keys, file_objects, handles, groups, exc, output, warned, error, run,
          call, ret>>

(***************************************************************************)
(* Bounds of the model.                                                     *)
(***************************************************************************)
MaxLen == 2              \* the longest file, in bytes
MaxFiles == 3            \* the most streams handed to parallel_compare on its own
MaxGroup == 3            \* the largest group ordered on its own
MaxPatterns == 1         \* the most --original, and the most --notoriginal, patterns
RecursionLimit == 5      \* the interpreter's recursion limit, in calls of files_by_size
DefaultLength == 1       \* the chunk the main loop has parallel_compare read at a
                         \* time, in bytes: the source's 4096 (line 252), scaled
                         \* down with MaxLen so that a file spans several chunks

Byte == {0, 1}

Contents(n) == UNION {[1..k -> Byte] : k \in 0..n}

(***************************************************************************)
(* Sequences.                                                               *)
(***************************************************************************)
Min(a, b) == IF a <= b THEN a ELSE b

Take(s, n) == SubSeq(s, 1, Min(n, Len(s)))

Drop(s, n) == SubSeq(s, Min(n, Len(s)) + 1, Len(s))

Range(s) == {s[i] : i \in DOMAIN s}

RECURSIVE Flatten(_)
Flatten(ss) == IF ss = <<>> THEN <<>> ELSE Head(ss) \o Flatten(Tail(ss))

\* The sequences that list each element of the set S once.
Orders(S) == {o \in [1..Cardinality(S) -> S] : Range(o) = S}

(***************************************************************************)
(* pathlib.                                                                 *)
(***************************************************************************)
Parent(p) == SubSeq(p, 1, Len(p) - 1)

Name(p) == p[Len(p)]

\* str(p)
RECURSIVE Str(_)
Str(p) == IF p = <<>> THEN "" ELSE Str(Parent(p)) \o "/" \o Name(p)

\* len(p.parts): the anchor "/" is a part of an absolute path
NumParts(p) == Len(p) + 1

\* len(str(p))
StrLen(p) == IF p = <<>> THEN 1 ELSE Len(Str(p))

\* p.relative_to(q) succeeds: q is p or an ancestor of p
IsRelativeTo(p, q) == Len(q) <= Len(p) /\ SubSeq(p, 1, Len(q)) = q

\* p.relative_to(q), for IsRelativeTo(p, q)
RelativeTo(p, q) == SubSeq(p, Len(q) + 1, Len(p))

EndsWith(s, t) == Len(s) >= Len(t) /\ SubSeq(s, Len(s) - Len(t) + 1, Len(s)) = t

Contains(s, t) == \E i \in 1..(Len(s) - Len(t) + 1) : SubSeq(s, i, i + Len(t) - 1) = t

\* fnmatch of one path segment, for the patterns "*<literal>" and "<literal>"
FnMatch(name, pat) ==
    IF Len(pat) >= 1 /\ SubSeq(pat, 1, 1) = "*"
    THEN EndsWith(name, SubSeq(pat, 2, Len(pat)))
    ELSE name = pat

\* p.match(pat) for a relative pattern of one segment: it is matched from the
\* right, that is against the last segment of p
PathMatch(p, pat) == p # <<>> /\ FnMatch(Name(p), pat)

\* bool(re.search(i, str(p))) for a pattern without metacharacters
ReSearch(pat, p) == Contains(Str(p), pat)

(***************************************************************************)
(* The file system.                                                         *)
(***************************************************************************)

\* What a link points at: its target as written, a relative one read from the
\* link's directory.
LinkTarget(f) ==
    IF fs.links[f].abs THEN fs.links[f].segs ELSE Parent(f) \o fs.links[f].segs

\* f.resolve(): the links in f are followed, those of its directories first.
\* ok is FALSE where resolve(strict=True) raises: nothing is there
\* (FileNotFoundError), or the links lead in a circle, which no file system
\* of the model has.  fuel bounds the links followed.
RECURSIVE ResolveN(_, _)
ResolveN(f, fuel) ==
    IF f = <<>> THEN [ok |-> TRUE, path |-> f]
    ELSE LET dir == ResolveN(Parent(f), fuel)
             q == dir.path \o <<Name(f)>>
         IN  IF ~dir.ok THEN [ok |-> FALSE, path |-> q]
             ELSE IF q \in DOMAIN fs.links
                  THEN IF fuel = 0 THEN [ok |-> FALSE, path |-> q]
                       ELSE ResolveN(LinkTarget(q), fuel - 1)
                  ELSE [ok |-> q \in DOMAIN fs.dirs \/ q \in DOMAIN fs.files,
                        path |-> q]

Resolve(f) == ResolveN(f, Cardinality(DOMAIN fs.links))

\* f.is_symlink(): the entry itself is a link
IsSymlink(f) ==
    f # <<>> /\ (Resolve(Parent(f)).path \o <<Name(f)>>) \in DOMAIN fs.links

\* f.is_dir(), f.is_file(), f.stat().st_size and the bytes open(f, "rb") reads:
\* each follows a link
IsDir(f) == Resolve(f).ok /\ Resolve(f).path \in DOMAIN fs.dirs

IsFile(f) == Resolve(f).ok /\ Resolve(f).path \in DOMAIN fs.files

ContentOf(f) == fs.files[Resolve(f).path]

StSize(f) == Len(ContentOf(f))

\* path.iterdir(), in the order the file system lists the directory
IterDir(d) ==
    LET entries == fs.dirs[Resolve(d).path]
    IN  [i \in DOMAIN entries |-> d \o <<entries[i]>>]

\* line 176: f = f.resolve(strict=True)
resolve_strict(f) == Resolve(f)

(***************************************************************************)
(* make_filter, make_score.                                                 *)
(***************************************************************************)
make_filter(include, exclude, p) ==
    /\ (include = <<>> \/ \E i \in DOMAIN include : PathMatch(p, include[i]))
    /\ ~ \E x \in DOMAIN exclude : PathMatch(p, exclude[x])

Count(pats, p) == Cardinality({i \in DOMAIN pats : ReSearch(pats[i], p)})

\* make_score with the two lists taken for each other
make_score_swapped(pro, contra, p) == Count(pro, p) - Count(contra, p)

make_score(pro, contra, p) == Count(contra, p) - Count(pro, p)

scoring_function(p) == make_score(args.original, args.notoriginal, p)

(***************************************************************************)
(* list.sort / sorted: a stable sort by key, reverse=True keeping the order *)
(* of equal keys.  keys[i] is the key of items[i], a pair compared as       *)
(* Python compares tuples.                                                  *)
(***************************************************************************)
KeyLess(a, b) == a[1] < b[1] \/ (a[1] = b[1] /\ a[2] < b[2])

SortedPos(keys_, reverse, i) ==
    LET before(j) == IF reverse THEN KeyLess(keys_[i], keys_[j])
                                ELSE KeyLess(keys_[j], keys_[i])
    IN  Cardinality({j \in DOMAIN keys_ : before(j)})
        + Cardinality({j \in DOMAIN keys_ : j < i /\ keys_[j] = keys_[i]}) + 1

StableSort(items, keys_, reverse) ==
    [n \in DOMAIN items |->
        items[CHOOSE i \in DOMAIN items : SortedPos(keys_, reverse, i) = n]]

\* lines 334-337: outFiles.sort(key=(len(p.parts), len(str(p))), reverse=args.long)
LengthSort(outFiles) ==
    IF args.long = "None" THEN outFiles
    ELSE StableSort(outFiles,
                    [i \in DOMAIN outFiles |->
                        <<NumParts(outFiles[i]), StrLen(outFiles[i])>>],
                    args.long = "True")

\* lines 338-341: sorted(outFiles, key=scoring_function)
ScoreSort(outFiles) ==
    StableSort(outFiles,
               [i \in DOMAIN outFiles |-> <<scoring_function(outFiles[i]), 0>>],
               FALSE)

(***************************************************************************)
(* relpath_unless_via_root                                                  *)
(***************************************************************************)
\* The result is [abs, segs]: an absolute path, or a path relative to start.
relpath_unless_via_root(path_, start_, roots) ==
    LET path == Resolve(path_).path
        start == Resolve(start_).path
        via(root) == /\ ~IsRelativeTo(start, Resolve(root).path)
                     /\ IsRelativeTo(path, Resolve(root).path)
    IN  IF ~IsRelativeTo(path, start)
        THEN [abs |-> TRUE, segs |-> path]
        ELSE IF \E i \in DOMAIN roots : via(roots[i])
             THEN [abs |-> TRUE, segs |-> path]
             ELSE [abs |-> FALSE, segs |-> RelativeTo(path, start)]

(***************************************************************************)
(* parallel_compare                                                         *)
(***************************************************************************)
\* A file object of parallel_compare is [name, data]: data is what the stream
\* has yet to deliver.  The generator's yields are the sequence returned.
RECURSIVE parallel_compare(_, _)
RECURSIVE ParallelCompareLoop(_, _)

Names(objs) == [i \in DOMAIN objs |-> objs[i].name]

\* parallel_compare as it would be if it judged the files by their first chunk.
compare_first_chunk(objs, length) ==
    LET chunk == [i \in DOMAIN objs |-> Take(objs[i].data, length)]
        idx == [i \in DOMAIN objs |-> i]
        first == SelectSeq(idx, LAMBDA i : \A j \in 1..(i - 1) : chunk[j] # chunk[i])
    IN  [k \in DOMAIN first |->
            Names(SelectSeq(objs, LAMBDA o : Take(o.data, length) = chunk[first[k]]))]

\* One turn of "while True" (lines 274-286), and the turns after it.
ParallelCompareLoop(objs, length) ==
    LET chunk == [i \in DOMAIN objs |-> Take(objs[i].data, length)]
        after == [i \in DOMAIN objs |-> [objs[i] EXCEPT !.data = Drop(@, length)]]
        idx == [i \in DOMAIN objs |-> i]
        \* the keys of file_data, in the order of their insertion
        first == SelectSeq(idx, LAMBDA i : \A j \in 1..(i - 1) : chunk[j] # chunk[i])
        file_set(c) == LET at == SelectSeq(idx, LAMBDA i : chunk[i] = c)
                       IN  [k \in DOMAIN at |-> after[at[k]]]
        finished == file_set(<<>>)
        yielded == IF finished # <<>> THEN <<Names(finished)>> ELSE <<>>
        rest == SelectSeq(first, LAMBDA i : chunk[i] # <<>>)
    IN  IF rest = <<>> THEN yielded
        ELSE IF Len(rest) > 1
             THEN yielded \o Flatten([k \in DOMAIN rest |->
                                parallel_compare(file_set(chunk[rest[k]]), length)])
             ELSE yielded \o ParallelCompareLoop(after, length)

parallel_compare(objs, length) ==
    IF Len(objs) <= 1 THEN << <<objs[1].name>> >>
    ELSE ParallelCompareLoop(objs, length)

(***************************************************************************)
(* The walk: files_by_size, one step per directory entry.                   *)
(***************************************************************************)
include_filter(p) == make_filter(args.include, args.exclude, p)

AddToBucket(d, size, f) ==
    IF size \in DOMAIN d THEN [d EXCEPT ![size] = @ \cup {f}]
    ELSE [k \in DOMAIN d \cup {size} |-> IF k = size THEN {f} ELSE d[k]]

\* lines 298-307: the main script calls files_by_size on the next of args.paths
ScanRoot ==
    /\ pc = "scan"
    /\ stack = <<>>
    /\ rootsLeft # <<>>
    /\ stack' = <<[path |-> Head(rootsLeft), todo |-> IterDir(Head(rootsLeft))]>>
    /\ rootsLeft' = Tail(rootsLeft)
    /\ UNCHANGED <<fs, args, files_by_size_dict, visited, noneKey, pc, keys,
                   file_objects, handles, groups, exc, output, warned, error,
                   run, call, ret>>

\* The directories a call of files_by_size may not enter again.
never_visited(f) == FALSE

AlreadyVisited(f) == f \in visited

\* lines 172-201: the body of the for loop, for the next entry of the
\* innermost call
WalkEntry ==
    /\ pc = "scan"
    /\ stack # <<>>
    /\ stack[Len(stack)].todo # <<>>
    /\ LET top == Len(stack)
           f0 == Head(stack[top].todo)
           popped == [stack EXCEPT ![top].todo = Tail(@)]
           r == resolve_strict(f0)
           f == r.path
           skip == /\ stack' = popped
                   /\ UNCHANGED <<files_by_size_dict, visited, noneKey, warned>>
       IN  IF ~include_filter(f0) THEN skip
           ELSE IF ~args.follow_links /\ IsSymlink(f0) THEN skip
           ELSE IF ~r.ok THEN skip                    \* FileNotFoundError
           ELSE IF AlreadyVisited(f)
                THEN /\ stack' = popped
                     /\ noneKey' = TRUE
                     /\ UNCHANGED <<files_by_size_dict, visited, warned>>
           ELSE IF args.recursive /\ IsDir(f)
                THEN /\ visited' = visited \cup {f}
                     /\ noneKey' = TRUE
                     /\ IF Len(stack) >= RecursionLimit
                        THEN /\ warned' = TRUE        \* RecursionError, caught
                             /\ stack' = popped
                        ELSE /\ stack' = Append(popped,
                                            [path |-> f, todo |-> IterDir(f)])
                             /\ UNCHANGED warned
                     /\ UNCHANGED files_by_size_dict
           ELSE IF ~IsFile(f) \/ StSize(f) < args.min_size
                THEN /\ stack' = popped
                     /\ noneKey' = TRUE
                     /\ UNCHANGED <<files_by_size_dict, visited, warned>>
           ELSE /\ files_by_size_dict' = AddToBucket(files_by_size_dict, StSize(f), f)
                /\ stack' = popped
                /\ noneKey' = TRUE
                /\ UNCHANGED <<visited, warned>>
    /\ UNCHANGED <<fs, args, rootsLeft, pc, keys, file_objects, handles, groups,
                   exc, output, error, run, call, ret>>

\* line 202: the innermost call has listed its directory and returns
WalkReturn ==
    /\ pc = "scan"
    /\ stack # <<>>
    /\ stack[Len(stack)].todo = <<>>
    /\ stack' = SubSeq(stack, 1, Len(stack) - 1)
    /\ UNCHANGED <<fs, args, files_by_size_dict, visited, noneKey, rootsLeft, pc,
                   keys, file_objects, handles, groups, exc, output, warned,
                   error, run, call, ret>>

(***************************************************************************)
(* The main loop, lines 309-387.                                            *)
(***************************************************************************)
\* sorted(files_by_size_dict.keys(), reverse=True)
RECURSIVE SortedDesc(_)
SortedDesc(S) ==
    IF S = {} THEN <<>>
    ELSE LET m == CHOOSE x \in S : \A y \in S : y <= x
         IN  <<m>> \o SortedDesc(S \ {m})

\* lines 309-318: del files_by_size_dict[None], then the loop over the keys
StartMain ==
    /\ pc = "scan"
    /\ stack = <<>>
    /\ rootsLeft = <<>>
    /\ IF ~noneKey
       THEN /\ error' = "KeyError"
            /\ pc' = "crashed"
            /\ UNCHANGED keys
       ELSE /\ keys' = SortedDesc(DOMAIN files_by_size_dict)
            /\ pc' = "loop"
            /\ UNCHANGED error
    /\ UNCHANGED <<fs, args, files_by_size_dict, visited, noneKey, stack,
                   rootsLeft, file_objects, handles, groups, exc, output,
                   warned, run, call, ret>>

\* The handle open(name, "rb") returns while bucket k is processed.
Handle(k, name) == [key |-> k, name |-> name]

\* open(filename, "rb") raises PermissionError
OpenFails(f) == fs.mode[Resolve(f).path] = "EACCES"

\* file.read(length) raises OSError
ReadFails(f) == fs.mode[Resolve(f).path] = "EIO"

\* lines 318-325: the next key; a bucket of one file is passed over, the files
\* of a larger one are opened in the order the set lists them
OpenFiles ==
    /\ pc = "loop"
    /\ keys # <<>>
    /\ LET k == Head(keys)
           aSet == files_by_size_dict[k]
       IN  IF Cardinality(aSet) <= 1
           THEN /\ keys' = Tail(keys)
                /\ UNCHANGED <<pc, file_objects, handles, exc>>
           ELSE \E order \in Orders(aSet) :
                  LET bad == {i \in DOMAIN order : OpenFails(order[i])}
                      stop == IF bad = {} THEN Len(order) + 1
                              ELSE CHOOSE i \in bad : \A j \in bad : i <= j
                      opened == {Handle(k, order[i]) : i \in 1..(stop - 1)}
                  IN  /\ handles' = handles \cup opened
                      /\ IF bad = {}
                         THEN /\ file_objects' =
                                   [bound |-> TRUE,
                                    objs |-> [i \in DOMAIN order |->
                                        [name |-> order[i], h |-> Handle(k, order[i])]]]
                              /\ pc' = "compare"
                              /\ UNCHANGED exc
                         ELSE /\ exc' = TRUE
                              /\ pc' = "finally"
                              /\ UNCHANGED file_objects
                      /\ UNCHANGED keys
    /\ UNCHANGED <<fs, args, files_by_size_dict, visited, noneKey, stack,
                   rootsLeft, groups, output, warned, error, run, call, ret>>

\* line 326: groups = list(parallel_compare(file_objects))
Compare ==
    /\ pc = "compare"
    /\ IF \E i \in DOMAIN file_objects.objs : ReadFails(file_objects.objs[i].name)
       THEN /\ exc' = TRUE
            /\ UNCHANGED groups
       ELSE /\ groups' = parallel_compare(
                  [i \in DOMAIN file_objects.objs |->
                      [name |-> file_objects.objs[i].name,
                       data |-> ContentOf(file_objects.objs[i].name)]],
                  DefaultLength)
            /\ UNCHANGED exc
    /\ pc' = "finally"
    /\ UNCHANGED <<fs, args, files_by_size_dict, visited, noneKey, stack,
                   rootsLeft, keys, file_objects, handles, output, warned, error,
                   run, call, ret>>

\* The handles "for _, file in file_objects: file.close()" closes.
ClosedByFinally == {file_objects.objs[i].h : i \in DOMAIN file_objects.objs}

\* lines 327-331: the finally clause, and the continue of the except clause
Finally ==
    /\ pc = "finally"
    /\ IF ~file_objects.bound
       THEN /\ error' = "NameError"
            /\ pc' = "crashed"
            /\ UNCHANGED <<handles, keys, exc>>
       ELSE /\ handles' = handles \ ClosedByFinally
            /\ IF exc
               THEN /\ keys' = Tail(keys)
                    /\ pc' = "loop"
               ELSE /\ pc' = "emit"
                    /\ UNCHANGED keys
            /\ exc' = FALSE
            /\ UNCHANGED error
    /\ UNCHANGED <<fs, args, files_by_size_dict, visited, noneKey, stack,
                   rootsLeft, file_objects, groups, output, warned, run, call, ret>>

\* lines 334-341: the order of an emitted group
Ordered(outFiles) == ScoreSort(LengthSort(outFiles))

\* lines 366-378: the target of "ln -s" for the copy f of original
LnTarget(original, f) == relpath_unless_via_root(original, Parent(f), args.paths)

\* lines 343-387: what is printed for one group
Printed(outFiles) ==
    LET group == Ordered(outFiles)
    IN  [group |-> group,
         links |-> IF args.script
                   THEN [i \in 1..(Len(group) - 1) |-> LnTarget(group[1], group[i + 1])]
                   ELSE <<>>]

\* lines 332-387: every group of two or more files is ordered and printed
Emit ==
    /\ pc = "emit"
    /\ LET big == SelectSeq(groups, LAMBDA g : Len(g) > 1)
       IN  output' = output \o [i \in DOMAIN big |-> Printed(big[i])]
    /\ keys' = Tail(keys)
    /\ pc' = "loop"
    /\ UNCHANGED <<fs, args, files_by_size_dict, visited, noneKey, stack,
                   rootsLeft, file_objects, handles, groups, exc, warned, error,
                   run, call, ret>>

\* line 318: the loop is over and the script ends
Finish ==
    /\ pc = "loop"
    /\ keys = <<>>
    /\ pc' = "done"
    /\ UNCHANGED <<fs, args, files_by_size_dict, visited, noneKey, stack,
                   rootsLeft, keys, file_objects, handles, groups, exc, output,
                   warned, error, run, call, ret>>

\* The handles no name of the program refers to any more.
Unreferenced ==
    handles \ (IF file_objects.bound THEN ClosedByFinally ELSE {})

\* The interpreter reclaims a file object nothing refers to, and closes it:
\* when it does so is up to the interpreter.
Finalize ==
    /\ pc \in {"loop", "compare", "finally", "emit"}
    /\ \E h \in Unreferenced : handles' = handles \ {h}
    /\ UNCHANGED <<fs, args, files_by_size_dict, visited, noneKey, stack,
                   rootsLeft, pc, keys, file_objects, groups, exc, output,
                   warned, error, run, call, ret>>

(***************************************************************************)
(* The printed script, executed by a shell.                                 *)
(***************************************************************************)
Restrict(fn, D) == [x \in D |-> fn[x]]

Exists(fsys, f) ==
    f \in DOMAIN fsys.dirs \cup DOMAIN fsys.files \cup DOMAIN fsys.links

\* rm "${FILE}": a file or a link is removed, a directory is not
rm_nothing(fsys, f) == fsys

Rm(fsys, f) ==
    [fsys EXCEPT !.files = Restrict(@, DOMAIN @ \ {f}),
                 !.mode = Restrict(@, DOMAIN @ \ {f}),
                 !.links = Restrict(@, DOMAIN @ \ {f})]

\* ln -s target f: fails when f exists
Ln(fsys, target, f) ==
    IF Exists(fsys, f) THEN fsys
    ELSE [fsys EXCEPT !.links = [x \in DOMAIN @ \cup {f} |->
                                    IF x = f THEN target ELSE @[x]]]

RECURSIVE RmAll(_, _, _)
RmAll(fsys, group, original) ==
    IF group = <<>> THEN fsys
    ELSE RmAll(IF Head(group) # original THEN Rm(fsys, Head(group)) ELSE fsys,
               Tail(group), original)

RECURSIVE LnAll(_, _, _)
LnAll(fsys, copies, targets) ==
    IF copies = <<>> THEN fsys
    ELSE LnAll(Ln(fsys, Head(targets), Head(copies)), Tail(copies), Tail(targets))

\* lines 346-379: the commands printed for one group
ExecGroup(fsys, printed) ==
    LnAll(RmAll(fsys, printed.group, printed.group[1]),
          Tail(printed.group), printed.links)

RECURSIVE ExecScript(_, _)
ExecScript(fsys, out) ==
    IF out = <<>> THEN fsys
    ELSE ExecScript(ExecGroup(fsys, Head(out)), Tail(out))

\* The script a run in script mode printed is executed, all of it.
RunScript ==
    /\ pc \in {"done", "crashed"}
    /\ run = 1
    /\ args.script
    /\ fs' = ExecScript(fs, output)
    /\ pc' = "ran"
    /\ UNCHANGED <<args, files_by_size_dict, visited, noneKey, stack, rootsLeft,
                   keys, file_objects, handles, groups, exc, output, warned,
                   error, run, call, ret>>

\* The detector is started again on the same roots, following links or not.
Rerun ==
    /\ pc = "ran"
    /\ \E follow \in BOOLEAN : args' = [args EXCEPT !.follow_links = follow]
    /\ files_by_size_dict' = <<>>
    /\ visited' = {}
    /\ noneKey' = FALSE
    /\ stack' = <<>>
    /\ rootsLeft' = args.paths
    /\ pc' = "scan"
    /\ keys' = <<>>
    /\ file_objects' = [bound |-> FALSE, objs |-> <<>>]
    /\ handles' = {}
    /\ groups' = <<>>
    /\ exc' = FALSE
    /\ output' = <<>>
    /\ warned' = FALSE
    /\ error' = ""
    /\ run' = 2
    /\ UNCHANGED <<fs, call, ret>>

(***************************************************************************)
(* Functions called on their own.                                           *)
(***************************************************************************)
\* list(parallel_compare(file_objects, length)); line 270 raises IndexError
\* on an empty list
CallCompare ==
    /\ pc = "call"
    /\ call.fn = "parallel_compare"
    /\ ret = [fn |-> "none"]
    /\ ret' = IF call.file_objects = <<>>
              THEN [fn |-> call.fn, raised |-> "IndexError", value |-> <<>>]
              ELSE [fn |-> call.fn, raised |-> "",
                    value |-> parallel_compare(call.file_objects, call.length)]
    /\ UNCHANGED <<fs, args, files_by_size_dict, visited, noneKey, stack,
                   rootsLeft, pc, keys, file_objects, handles, groups, exc,
                   output, warned, error, run, call>>

\* lines 334-341 on one group
CallOrder ==
    /\ pc = "call"
    /\ call.fn = "order"
    /\ ret = [fn |-> "none"]
    /\ ret' = [fn |-> call.fn, value |-> Ordered(call.outFiles)]
    /\ UNCHANGED <<fs, args, files_by_size_dict, visited, noneKey, stack,
                   rootsLeft, pc, keys, file_objects, handles, groups, exc,
                   output, warned, error, run, call>>

\* lines 366-378 on one original and one copy
CallLn ==
    /\ pc = "call"
    /\ call.fn = "ln"
    /\ ret = [fn |-> "none"]
    /\ ret' = [fn |-> call.fn, value |-> LnTarget(call.original, call.f)]
    /\ UNCHANGED <<fs, args, files_by_size_dict, visited, noneKey, stack,
                   rootsLeft, pc, keys, file_objects, handles, groups, exc,
                   output, warned, error, run, call>>

(***************************************************************************)
(* The initial states.                                                      *)
(***************************************************************************)
Root == <<"r">>

DefaultArgs ==
    [paths |-> <<Root>>, min_size |-> 1, follow_links |-> TRUE,
     recursive |-> TRUE, include |-> <<>>, exclude |-> <<>>, long |-> "None",
     original |-> <<>>, notoriginal |-> <<>>, script |-> FALSE]

NoCall == [fn |-> "none"]

\* The state in which the script starts, on file system f with arguments a.
Start(f, a) ==
    /\ fs = f
    /\ args = a
    /\ files_by_size_dict = <<>>
    /\ visited = {}
    /\ noneKey = FALSE
    /\ stack = <<>>
    /\ rootsLeft = a.paths
    /\ pc = "scan"
    /\ keys = <<>>
    /\ file_objects = [bound |-> FALSE, objs |-> <<>>]
    /\ handles = {}
    /\ groups = <<>>
    /\ exc = FALSE
    /\ output = <<>>
    /\ warned = FALSE
    /\ error = ""
    /\ run = 1
    /\ call = NoCall
    /\ ret = NoCall

\* The state in which one function is called with the arguments c.
Calling(f, a, c) ==
    /\ fs = f
    /\ args = a
    /\ files_by_size_dict = <<>>
    /\ visited = {}
    /\ noneKey = FALSE
    /\ stack = <<>>
    /\ rootsLeft = <<>>
    /\ pc = "call"
    /\ keys = <<>>
    /\ file_objects = [bound |-> FALSE, objs |-> <<>>]
    /\ handles = {}
    /\ groups = <<>>
    /\ exc = FALSE
    /\ output = <<>>
    /\ warned = FALSE
    /\ error = ""
    /\ run = 1
    /\ call = c
    /\ ret = NoCall

A == <<"r", "a.txt">>
B == <<"r", "b.txt">>
S == <<"r", "s">>
C == <<"r", "s", "c.txt">>
D == <<"r", "s", "d.txt">>
E == <<"r", "s", "e.txt">>
Y == <<"r", "y.txt">>
Z == <<"r", "s", "z.txt">>
L1 == <<"r", "l1">>
L2 == <<"r", "s", "l2">>
Gone == <<"r", "gone">>

AllOk(files) == [f \in DOMAIN files |-> "ok"]

NoFiles == [f \in {} |-> <<>>]

FileSystem(dirs, files, links) ==
    [dirs |-> dirs, files |-> files, links |-> links, mode |-> AllOk(files)]

\* /r holds a.txt, b.txt and the directory s, which holds c.txt and d.txt.
Tree == (Root :> <<"a.txt", "b.txt", "s">>) @@ (S :> <<"c.txt", "d.txt">>)

\* The contents of a.txt, b.txt and c.txt are any; d.txt is a copy of c.txt.
InitContents ==
    \E ca, cb, cc \in Contents(MaxLen) :
        Start(FileSystem(Tree, (A :> ca) @@ (B :> cb) @@ (C :> cc) @@ (D :> cc),
                         NoFiles),
              DefaultArgs)

\* Two copies of one file of two bytes, three copies of one of one byte and
\* two empty files, which --min-size 0 lets in; any of the first five cannot
\* be opened, or cannot be read.
InitFail ==
    \E mode \in [{A, B, C, D, E} -> {"ok", "EACCES", "EIO"}] :
        Start([dirs |-> (Root :> <<"a.txt", "b.txt", "s", "y.txt">>)
                        @@ (S :> <<"c.txt", "d.txt", "e.txt", "z.txt">>),
               files |-> (A :> <<1>>) @@ (B :> <<1>>) @@ (C :> <<1>>)
                         @@ (D :> <<0, 1>>) @@ (E :> <<0, 1>>)
                         @@ (Y :> <<>>) @@ (Z :> <<>>),
               links |-> NoFiles,
               mode |-> mode @@ (Y :> "ok") @@ (Z :> "ok")],
              [DefaultArgs EXCEPT !.min_size = 0])

\* The filters, the size floor and --flat are any; a.txt and c.txt are copies
\* of two bytes, b.txt and d.txt copies of one byte.
InitFilter ==
    \E include \in {<<>>, <<"*.txt">>, <<"s", "*.txt">>, <<"a.txt">>},
       exclude \in {<<>>, <<"s">>, <<"b.txt">>},
       recursive \in BOOLEAN,
       min_size \in 0..MaxLen :
        Start(FileSystem(Tree, (A :> <<0, 1>>) @@ (B :> <<1>>) @@ (C :> <<0, 1>>)
                               @@ (D :> <<1>>), NoFiles),
              [DefaultArgs EXCEPT !.include = include, !.exclude = exclude,
                                  !.recursive = recursive, !.min_size = min_size])

AbsLink(target) == [abs |-> TRUE, segs |-> target]

\* /r holds a.txt, the directory s and the link l1; s holds c.txt, a copy of
\* a.txt, and the link l2.  Each link points at /r, at /r/s, at a file or at
\* nothing; the directories list their entries in any order and the roots
\* are /r, /r/s or both.
InitWalk ==
    \E t1, t2 \in {Root, S, A, C, Gone},
       o1 \in Orders({"a.txt", "s", "l1"}),
       o2 \in Orders({"c.txt", "l2"}),
       paths \in {<<Root>>, <<S, Root>>, <<Root, S>>},
       follow \in BOOLEAN, recursive \in BOOLEAN :
        Start(FileSystem((Root :> o1) @@ (S :> o2),
                         (A :> <<0, 1>>) @@ (C :> <<0, 1>>),
                         (L1 :> AbsLink(t1)) @@ (L2 :> AbsLink(t2))),
              [DefaultArgs EXCEPT !.paths = paths, !.follow_links = follow,
                                  !.recursive = recursive])

\* Script mode: the files are of one byte each, any; the roots, the length
\* preference and the pattern of the original are any.
InitScript ==
    \E ca, cb, cc, cd \in [1..1 -> Byte],
       paths \in {<<Root>>, <<S, Root>>, <<Root, S>>},
       long \in {"None", "True", "False"},
       original \in {<<>>, <<"/s/">>},
       follow \in BOOLEAN :
        Start(FileSystem(Tree, (A :> ca) @@ (B :> cb) @@ (C :> cc) @@ (D :> cd),
                         NoFiles),
              [DefaultArgs EXCEPT !.paths = paths, !.long = long,
                                  !.original = original, !.follow_links = follow,
                                  !.script = TRUE])

Init == InitContents \/ InitFail \/ InitFilter \/ InitWalk \/ InitScript

Next ==
    \/ ScanRoot
    \/ WalkEntry
    \/ WalkReturn
    \/ StartMain
    \/ OpenFiles
    \/ Compare
    \/ Finally
    \/ Emit
    \/ Finish
    \/ Finalize
    \/ RunScript
    \/ Rerun

Spec == Init /\ [][Next]_vars

\* parallel_compare on its own: up to MaxFiles streams of any contents, read
\* in chunks of any length.
InitCompare ==
    \E n \in 0..MaxFiles :
      \E data \in [1..n -> Contents(MaxLen)], length \in 1..MaxLen :
        Calling(FileSystem(Tree, NoFiles, NoFiles), DefaultArgs,
                [fn |-> "parallel_compare",
                 file_objects |-> [i \in 1..n |-> [name |-> i, data |-> data[i]]],
                 length |-> length])

NextCompare == CallCompare

SpecCompare == InitCompare /\ [][NextCompare]_vars

\* The ordering of one group: its members listed in any order, the patterns
\* and the length preference any.
Candidates ==
    {<<"canonical", "a.txt">>, <<"tmp", "a.txt">>, <<"tmp", "x", "a.txt">>,
     <<"canonical", "bb.txt">>}

Patterns == {"/canonical/", "/tmp/", "/x/"}

PatternLists == UNION {[1..n -> Patterns] : n \in 0..MaxPatterns}

InitOrder ==
    \E members \in SUBSET Candidates :
      /\ Cardinality(members) \in 2..MaxGroup
      /\ \E outFiles \in Orders(members),
            original \in PatternLists, notoriginal \in PatternLists,
            long \in {"None", "True", "False"} :
           Calling(FileSystem(Tree, NoFiles, NoFiles),
                   [DefaultArgs EXCEPT !.original = original,
                                       !.notoriginal = notoriginal,
                                       !.long = long],
                   [fn |-> "order", outFiles |-> outFiles])

NextOrder == CallOrder

SpecOrder == InitOrder /\ [][NextOrder]_vars

\* The target of one link: the original and the copy are any two files of
\* /r, /r/s, /r/s/t and /q, each below one of the roots, which are any of
\* these directories.
T == <<"r", "s", "t">>
Q == <<"q">>
F == <<"r", "s", "t", "f.txt">>
G == <<"q", "g.txt">>

InitLn ==
    \E original, f \in {A, B, C, D, F, G},
       paths \in {<<Root>>, <<S>>, <<Root, S>>, <<S, Root>>, <<Root, Q>>, <<T, Root>>} :
        /\ original # f
        /\ \E i, j \in DOMAIN paths :
              IsRelativeTo(original, paths[i]) /\ IsRelativeTo(f, paths[j])
        /\ Calling(FileSystem((Root :> <<"a.txt", "b.txt", "s">>)
                                @@ (S :> <<"c.txt", "d.txt", "t">>)
                                @@ (T :> <<"f.txt">>) @@ (Q :> <<"g.txt">>),
                              [x \in {A, B, C, D, F, G} |-> <<0>>], NoFiles),
                   [DefaultArgs EXCEPT !.paths = paths, !.script = TRUE],
                   [fn |-> "ln", original |-> original, f |-> f])

NextLn == CallLn

SpecLn == InitLn /\ [][NextLn]_vars

(***************************************************************************)
(* The properties.                                                          *)
(***************************************************************************)
\* The files of the size index.
Indexed == UNION {files_by_size_dict[k] : k \in DOMAIN files_by_size_dict}

\* a and b were printed in one group.
Together(a, b) == \E i \in DOMAIN output : {a, b} \subseteq Range(output[i].group)

Ended == pc \in {"done", "crashed"}

UnderRoot(f, root) ==
    IsRelativeTo(f, root) /\ f # root /\ (args.recursive \/ Parent(f) = root)

Excluded(p) == \E x \in DOMAIN args.exclude : PathMatch(p, args.exclude[x])

Included(p) ==
    args.include = <<>> \/ \E i \in DOMAIN args.include : PathMatch(p, args.include[i])

\* No directory from below root down to f, nor f, matches an exclude pattern.
NotPruned(f, root) == \A n \in (Len(root) + 1)..Len(f) : ~Excluded(SubSeq(f, 1, n))

\* f is a file under a scanned root that passes the filters and the size floor.
Eligible(f) ==
    /\ f \in DOMAIN fs.files
    /\ \E i \in DOMAIN args.paths :
          UnderRoot(f, args.paths[i]) /\ NotPruned(f, args.paths[i])
    /\ Included(f)
    /\ Len(fs.files[f]) >= args.min_size

LastByteOnly(x, y) ==
    /\ Len(x) = Len(y)
    /\ Len(x) >= 2
    /\ SubSeq(x, 1, Len(x) - 1) = SubSeq(y, 1, Len(y) - 1)
    /\ x[Len(x)] # y[Len(y)]

\* C1 (soundness): while the file system is as the run found it, every
\* printed group has two or more members, all of them files of the same
\* contents, byte for byte.
C1_Soundness ==
    pc # "ran" =>
        \A i \in DOMAIN output :
            LET g == output[i].group
            IN  /\ Len(g) >= 2
                /\ \A x \in Range(g) : x \in DOMAIN fs.files
                /\ \A x, y \in Range(g) : fs.files[x] = fs.files[y]

\* A run ended and printed a group, and left out of it two files of one
\* bucket that differ in their last byte only.
C1_Witness ==
    /\ pc = "done"
    /\ output # <<>>
    /\ \E x, y \in Indexed :
          /\ LastByteOnly(fs.files[x], fs.files[y])
          /\ ~Together(x, y)

\* C2 (completeness): when the run has ended, any two files under the
\* scanned roots that pass the filters and the size floor and have the same
\* contents were printed in one group.
C2_Completeness ==
    (Ended /\ run = 1) =>
        \A a, b \in DOMAIN fs.files :
            (a # b /\ Eligible(a) /\ Eligible(b) /\ fs.files[a] = fs.files[b])
                => Together(a, b)

\* The places of the yielded groups that hold the name n.
Occurrences(n) ==
    {<<g, k>> \in (DOMAIN ret.value) \X (1..MaxFiles) :
        k \in DOMAIN ret.value[g] /\ ret.value[g][k] = n}

\* C3 (parallel_compare partitions by contents): every name of a non-empty
\* input is yielded in exactly one group, once, and two names are yielded in
\* one group exactly when their streams hold the same bytes.
C3_Partition ==
    (ret.fn = "parallel_compare" /\ call.file_objects # <<>>) =>
        /\ ret.raised = ""
        /\ \A i \in DOMAIN call.file_objects : Cardinality(Occurrences(i)) = 1
        /\ \A i, j \in DOMAIN call.file_objects :
              (\E g \in DOMAIN ret.value : {i, j} \subseteq Range(ret.value[g]))
                  <=> call.file_objects[i].data = call.file_objects[j].data

\* Bucket k has exactly one member that cannot be opened, and none that
\* cannot be read.
OneOpenFailure(k) ==
    /\ Cardinality({f \in files_by_size_dict[k] : OpenFails(f)}) = 1
    /\ \A f \in files_by_size_dict[k] : ~ReadFails(f)

Clean(k) == \A f \in files_by_size_dict[k] : ~OpenFails(f) /\ ~ReadFails(f)

\* C4 (an open failure is local): when one member of one bucket cannot be
\* opened (and every other file opens and reads), the run ends without an
\* error and, in every bucket, the members that can be opened and have the
\* same contents were printed in one group.
C4_OpenFailureLocal ==
    (/\ Ended
     /\ run = 1
     /\ \E k \in DOMAIN files_by_size_dict :
           /\ OneOpenFailure(k)
           /\ \A j \in DOMAIN files_by_size_dict \ {k} : Clean(j))
    => /\ error = ""
       /\ \A k \in DOMAIN files_by_size_dict :
             \A a, b \in files_by_size_dict[k] :
                (a # b /\ ~OpenFails(a) /\ ~OpenFails(b)
                       /\ ContentOf(a) = ContentOf(b)) => Together(a, b)

\* C5 (idempotent remediation): the run after the printed script was
\* executed prints no group.
C5_Idempotent == run = 2 => output = <<>>

\* The second run ended, following links, on a tree in which the script
\* replaced a copy by a link.
C5_Witness ==
    /\ run = 2
    /\ pc = "done"
    /\ args.follow_links
    /\ DOMAIN fs.links # {}

\* C6 (include patterns restrict files only): after a recursive walk with
\* include patterns, every file under a root that matches an include
\* pattern, is not excluded and is large enough is in the size index.
C6_IncludeFilesOnly ==
    (pc \notin {"scan", "call"} /\ run = 1 /\ args.recursive /\ args.include # <<>>)
        => \A f \in DOMAIN fs.files : Eligible(f) => f \in Indexed

\* The score of a path, as it is documented.
ClaimedScore(p) ==
    Cardinality({i \in DOMAIN args.notoriginal : Contains(Str(p), args.notoriginal[i])})
    - Cardinality({i \in DOMAIN args.original : Contains(Str(p), args.original[i])})

\* The key of the length pass: path segments, then characters.
LengthKey(p) == <<Len(p) + 1, Len(Str(p))>>

\* The place of p in the group as it was handed in.
CameIn(p) == CHOOSE i \in DOMAIN call.outFiles : call.outFiles[i] = p

\* C7 (original ordering): a group comes out ordered by score, the number of
\* not-original patterns matched less the number of original patterns
\* matched, lowest first; members of one score are in the order of the
\* length pass (segments, then characters; ascending for shortest, descending
\* for longest), and in the order they came in without a length preference.
C7_OriginalOrdering ==
    ret.fn = "order" =>
        LET r == ret.value
        IN  /\ Len(r) = Len(call.outFiles)
            /\ Range(r) = Range(call.outFiles)
            /\ \A i, j \in DOMAIN r :
                  i < j =>
                    \/ ClaimedScore(r[i]) < ClaimedScore(r[j])
                    \/ /\ ClaimedScore(r[i]) = ClaimedScore(r[j])
                       /\ args.long = "False"
                            => ~KeyLess(LengthKey(r[j]), LengthKey(r[i]))
                       /\ args.long = "True"
                            => ~KeyLess(LengthKey(r[i]), LengthKey(r[j]))
                       /\ args.long = "None" => CameIn(r[i]) < CameIn(r[j])

\* With the shortest path preferred, the member put first has the lower
\* score and the longer path.
C7_Witness ==
    /\ ret.fn = "order"
    /\ args.long = "False"
    /\ ClaimedScore(ret.value[1]) < ClaimedScore(ret.value[2])
    /\ KeyLess(LengthKey(ret.value[2]), LengthKey(ret.value[1]))

\* The number of leading segments p and q share.
CommonLen(p, q) ==
    LET same == {n \in 0..Min(Len(p), Len(q)) : SubSeq(p, 1, n) = SubSeq(q, 1, n)}
    IN  CHOOSE n \in same : \A m \in same : m <= n

\* os.path.relpath(p, start)
RelPath(p, start) ==
    [i \in 1..(Len(start) - CommonLen(p, start)) |-> ".."]
        \o SubSeq(p, CommonLen(p, start) + 1, Len(p))

\* p is below a configured root that start is not below.
ViaOtherRoot(p, start) ==
    \E i \in DOMAIN args.paths :
        IsRelativeTo(p, args.paths[i]) /\ ~IsRelativeTo(start, args.paths[i])

\* C8 (the target of ln -s): the target is the original's path relative to
\* the copy's directory, and the absolute path exactly when the original is
\* below a configured root that the copy's directory is not below.
C8_LinkTargetForm ==
    ret.fn = "ln" =>
        ret.value = IF ViaOtherRoot(call.original, Parent(call.f))
                    THEN [abs |-> TRUE, segs |-> call.original]
                    ELSE [abs |-> FALSE,
                          segs |-> RelPath(call.original, Parent(call.f))]

\* The entries the calls on the stack have yet to look at.
RECURSIVE Pending(_)
Pending(st) == IF st = <<>> THEN 0 ELSE Len(Head(st).todo) + Pending(Tail(st))

\* The most entries a directory has.
MostEntries ==
    LET n == {Len(fs.dirs[d]) : d \in DOMAIN fs.dirs}
    IN  CHOOSE m \in n : \A k \in n : k <= m

\* What is left of the walk: the roots and directories yet to be entered,
\* then the entries yet to be looked at and the calls yet to return.
Rank ==
    (Len(rootsLeft) + Cardinality(DOMAIN fs.dirs \ visited)) * (MostEntries + 2)
        + Pending(stack) + Len(stack)

\* C9 (cycle safety of the walk): every step of the walk brings it nearer to
\* its end, whatever the links point at; the recursion limit is never
\* reached; and when the walk is over, without filters, every file under the
\* roots that is large enough is in the size index.
C9_CycleSafe ==
    [][pc = "scan" =>
          /\ ~warned'
          /\ pc' = "scan" => Rank' < Rank
          /\ (pc' # "scan" /\ args.include = <<>> /\ args.exclude = <<>>)
                => \A f \in DOMAIN fs.files : Eligible(f) => f \in Indexed']_vars

\* A run that follows links ended, on a tree with a link to the directory
\* that holds it, and another to the directory above, and printed the copies.
C9_Witness ==
    /\ pc = "done"
    /\ run = 1
    /\ args.follow_links
    /\ args.recursive
    /\ L1 \in DOMAIN fs.links
    /\ fs.links[L1].segs = Root
    /\ fs.links[L2].segs = Root
    /\ Together(A, C)

\* C10 (no handle leak): when the main loop turns to the next bucket, no
\* file handle is open.
C10_NoLeak == (pc = "loop" /\ keys # <<>>) => handles = {}

=============================================================================
